---- MODULE Spec2Model ----
(***************************************************************************)
(* A model of github.com/matthewmueller/prompter (prompt.go): a Prompter   *)
(* owns a writer and a buffered reader; a Question (default, optional,     *)
(* validators) is resolved by Ask / Password / Confirm, each read being    *)
(* done by a goroutine that the calling goroutine races against the        *)
(* context's Done channel.                                                 *)
(*                                                                         *)
(* Strings are sequences of one-character strings; literal pieces of a     *)
(* format string are kept as one element.                                  *)
(***************************************************************************)
EXTENDS Integers, Sequences, FiniteSets, TLC

\* ------------------------------------------------------------------ bounds
\* Longest input stream, in lines.
MaxLines == 2
\* Most read attempts of one call the model follows.
MaxAttempts == 3
\* Most reader goroutines left behind by cancelled calls.
MaxLeaked == 1

\* ------------------------------------------------------------ characters
CR == "\r"
LF == "\n"

\* The lines a user may type (without the terminating LF).
Lines ==
  { <<>>, <<CR>>, <<"a", "m", "y">>, <<"Y", "e", "s", CR>>, <<"n", "O">> }

\* Text left at the end of the stream without a line terminator.
Fragments == { <<>>, <<"n", "o">> }

DefaultValues == { <<>>, <<"a", "m">> }

PromptText == <<"Name?">>

\* ------------------------------------------------------- string helpers
RECURSIVE Flatten(_)
Flatten(ls) ==
  IF ls = <<>> THEN <<>> ELSE Head(ls) \o <<LF>> \o Flatten(Tail(ls))

SeqsUpTo(S, n) == UNION { [1..k -> S] : k \in 0..n }

\* TrimRight with the cutset "\n" only.
RECURSIVE TrimRightNoCR(_)
TrimRightNoCR(s) ==
  IF s # <<>> /\ s[Len(s)] = LF
  THEN TrimRightNoCR(SubSeq(s, 1, Len(s) - 1))
  ELSE s

\* strings.TrimRight(input, "\r\n")
RECURSIVE TrimRight(_)
TrimRight(s) ==
  IF s # <<>> /\ s[Len(s)] \in {CR, LF}
  THEN TrimRight(SubSeq(s, 1, Len(s) - 1))
  ELSE s

\* strings.ToLower on the characters the model uses
LowerChar(c) ==
  CASE c = "Y" -> "y"
    [] c = "E" -> "e"
    [] c = "S" -> "s"
    [] c = "N" -> "n"
    [] c = "O" -> "o"
    [] OTHER -> c

ToLower(s) == [i \in 1..Len(s) |-> LowerChar(s[i])]

\* fmt's %q: the Go-quoted string
QuoteChar(c) ==
  CASE c = CR -> "\\r"
    [] c = LF -> "\\n"
    [] OTHER -> c

Quote(s) == <<"\"">> \o [i \in 1..Len(s) |-> QuoteChar(s[i])] \o <<"\"">>

\* ---------------------------------------------------------------- state
VARIABLES
  input,     \* the bytes of the underlying io.Reader not yet read
  srcErr,    \* what the io.Reader returns once its bytes are used up
  isTerm,    \* p.fd > -1 && term.IsTerminal(p.fd)
  output,    \* bytes written to p.writer by the call in progress (or the last)
  q,         \* the Question of the call: defaultTo, optional, validators
  op,        \* the operation called: Ask, Password, Confirm
  pc,        \* the calling goroutine: idle, confirm, retry, select
  ctxDone,   \* the call's context is cancelled
  ret,       \* what the last call returned
  attempts,  \* prompts written by the call
  vlog,      \* validator invocations of the call, in order
  startInput, \* input when the call began
  lineLog,   \* values the call received on inputCh, in order
  reader,    \* the goroutine reading for the current attempt
  leaked     \* the goroutines left behind by calls that returned on ctx.Done()

vars ==
  << input, srcErr, isTerm, output, q, op, pc, ctxDone, ret, attempts, vlog,
     startInput, lineLog, reader, leaked >>

session == << srcErr, isTerm >>

Nil == "nil"
ErrRequired == "ErrRequired"
Canceled == "Canceled"
EOF == "EOF"
EIO == "EIO"

NoRet ==
  [val |-> <<>>, err |-> Nil, ok |-> FALSE, set |-> FALSE, accepted |-> <<>>]

NoMsg == [ch |-> "none", val |-> <<>>, err |-> Nil]
\* more: the sends the goroutine makes after the one of msg; closes: the close
\* calls made on its two channels, in order.
NoReader ==
  [pc |-> "none", password |-> FALSE, defaultTo |-> <<>>, optional |-> FALSE,
   msg |-> NoMsg, more |-> <<>>, closes |-> <<>>]

\* --------------------------------------------------------------- reading
Min(S) == CHOOSE x \in S : \A y \in S : x <= y

\* p.reader.ReadString('\n') on the unread bytes buf: the bytes up to and
\* including the first LF, or all of them together with the source's error;
\* rest is what stays unread.
ReadString(buf) ==
  LET nl == { i \in 1..Len(buf) : buf[i] = LF } IN
  IF nl # {}
  THEN [data |-> SubSeq(buf, 1, Min(nl)), err |-> Nil,
        rest |-> SubSeq(buf, Min(nl) + 1, Len(buf))]
  ELSE [data |-> buf, err |-> srcErr, rest |-> <<>>]

\* scanLine sending the empty input, not ErrRequired, at the end of the input.
scanLineNoRequired(defaultTo, optional, buf) ==
  LET rd == ReadString(buf) IN
  IF rd.err # Nil /\ rd.err # EOF
  THEN [ch |-> "errorCh", val |-> <<>>, err |-> rd.err, rest |-> rd.rest,
        more |-> <<>>]
  ELSE IF rd.err = EOF /\ defaultTo # <<>>
  THEN [ch |-> "inputCh", val |-> defaultTo, err |-> Nil, rest |-> rd.rest,
        more |-> <<>>]
  ELSE [ch |-> "inputCh", val |-> TrimRight(rd.data), err |-> Nil,
        rest |-> rd.rest, more |-> <<>>]

\* scanLine without the return after errorCh <- ErrRequired: it goes on to trim
\* the input and send it.
scanLineNoReturn(defaultTo, optional, buf) ==
  LET rd == ReadString(buf) IN
  IF rd.err # Nil /\ rd.err # EOF
  THEN [ch |-> "errorCh", val |-> <<>>, err |-> rd.err, rest |-> rd.rest,
        more |-> <<>>]
  ELSE IF rd.err = EOF /\ defaultTo # <<>>
  THEN [ch |-> "inputCh", val |-> defaultTo, err |-> Nil, rest |-> rd.rest,
        more |-> <<>>]
  ELSE IF rd.err = EOF /\ ~optional
  THEN [ch |-> "errorCh", val |-> <<>>, err |-> ErrRequired, rest |-> rd.rest,
        more |-> << [ch |-> "inputCh", val |-> TrimRight(rd.data),
                     err |-> Nil] >>]
  ELSE [ch |-> "inputCh", val |-> TrimRight(rd.data), err |-> Nil,
        rest |-> rd.rest, more |-> <<>>]

\* scanLine: the message the reader goroutine sends and the new cursor; every
\* send is followed by return or is the last statement, so none follows (more).
scanLine(defaultTo, optional, buf) ==
  LET rd == ReadString(buf) IN
  IF rd.err # Nil /\ rd.err # EOF
  THEN [ch |-> "errorCh", val |-> <<>>, err |-> rd.err, rest |-> rd.rest,
        more |-> <<>>]
  ELSE IF rd.err = EOF /\ defaultTo # <<>>
  THEN [ch |-> "inputCh", val |-> defaultTo, err |-> Nil, rest |-> rd.rest,
        more |-> <<>>]
  ELSE IF rd.err = EOF /\ ~optional
  THEN [ch |-> "errorCh", val |-> <<>>, err |-> ErrRequired, rest |-> rd.rest,
        more |-> <<>>]
  ELSE [ch |-> "inputCh", val |-> TrimRight(rd.data), err |-> Nil,
         rest |-> rd.rest, more |-> <<>>]

\* term.ReadPassword(p.fd): bytes up to the next LF, every CR dropped; end of
\* input is an error only when nothing was typed.
ReadPassword(buf) ==
  LET rd == ReadString(buf)
      txt == SelectSeq(rd.data, LAMBDA c : c \notin {CR, LF})
  IN  IF rd.err = EOF /\ txt # <<>>
      THEN [data |-> txt, err |-> Nil, rest |-> rd.rest]
      ELSE [data |-> txt, err |-> rd.err, rest |-> rd.rest]

\* scanPassword without the fallback to scanLine for an input that is no terminal.
scanPasswordNoFallback(defaultTo, optional, buf) ==
  LET rd == ReadPassword(buf) IN
  IF rd.err # Nil
  THEN [ch |-> "errorCh", val |-> <<>>, err |-> rd.err, rest |-> rd.rest,
        more |-> <<>>]
  ELSE [ch |-> "inputCh", val |-> rd.data, err |-> Nil, rest |-> rd.rest,
        more |-> <<>>]

\* scanPassword
scanPassword(defaultTo, optional, buf) ==
  IF isTerm
  THEN LET rd == ReadPassword(buf) IN
       IF rd.err # Nil
       THEN [ch |-> "errorCh", val |-> <<>>, err |-> rd.err, rest |-> rd.rest,
             more |-> <<>>]
       ELSE [ch |-> "inputCh", val |-> rd.data, err |-> Nil, rest |-> rd.rest,
             more |-> <<>>]
  ELSE scanLine(defaultTo, optional, buf)

\* ------------------------------------------------------------ validators
\* Shortest name validName accepts.
MinNameLen == 3
\* The one password validate accepts.
GoodPassword == <<"Y", "e", "s">>

\* Validators of which Confirm's returns nil in its default case.
ValidateNoDefaultCase(v, s) ==
  CASE v = "validName" ->
         IF Len(s) < MinNameLen
         THEN <<"'">> \o s \o <<"' is too short">>
         ELSE <<>>
    [] v = "validate" ->
         IF s # GoodPassword THEN <<"invalid password">> ELSE <<>>
    [] v = "yesno" -> <<>>

\* A validator's error text; <<>> is a nil error.
Validate(v, s) ==
  CASE v = "validName" ->
         IF Len(s) < MinNameLen
         THEN <<"'">> \o s \o <<"' is too short">>
         ELSE <<>>
    [] v = "validate" ->
         IF s # GoodPassword THEN <<"invalid password">> ELSE <<>>
    [] v = "yesno" ->
         IF ToLower(s) \in { <<"y">>, <<"y", "e", "s">>, <<"n">>, <<"n", "o">> }
         THEN <<>>
         ELSE <<"invalid value ">> \o Quote(s) \o <<", must enter yes or no">>

ValidatorLists ==
  { <<>>, <<"validName">>, <<"validName", "validate">>,
    <<"validate", "validName">> }

\* The validator loop without its goto retry: every validator is invoked.
RECURSIVE RunValidatorsAll(_, _)
RunValidatorsAll(vs, s) ==
  IF vs = <<>>
  THEN [log |-> <<>>, msg |-> <<>>]
  ELSE LET e == Validate(Head(vs), s)
           call == << [v |-> Head(vs), arg |-> s, failed |-> e # <<>>] >>
           rest == RunValidatorsAll(Tail(vs), s)
       IN  [log |-> call \o rest.log, msg |-> IF e # <<>> THEN e ELSE rest.msg]

\* The validator loop of Ask and Password: the invocations made, in order, and
\* the first error.
RECURSIVE RunValidators(_, _)
RunValidators(vs, s) ==
  IF vs = <<>>
  THEN [log |-> <<>>, msg |-> <<>>]
  ELSE LET e == Validate(Head(vs), s)
           call == << [v |-> Head(vs), arg |-> s, failed |-> e # <<>>] >>
       IN  IF e # <<>>
           THEN [log |-> call, msg |-> e]
           ELSE LET rest == RunValidators(Tail(vs), s)
                IN  [log |-> call \o rest.log, msg |-> rest.msg]

\* --------------------------------------------------------- the questions
newQuestion(defaultTo, optional, validators) ==
  [defaultTo |-> defaultTo, optional |-> optional, validators |-> validators]

\* Ask with the default taking precedence over what was typed.
AskInputDefaultFirst(question, in) ==
  IF question.defaultTo # <<>>
  THEN [retry |-> FALSE, val |-> question.defaultTo, out |-> <<>>, log |-> <<>>]
  ELSE IF in = <<>> /\ ~question.optional
  THEN [retry |-> TRUE, val |-> <<>>, out |-> <<>>, log |-> <<>>]
  ELSE LET r == RunValidators(question.validators, in) IN
       IF r.msg # <<>>
       THEN [retry |-> TRUE, val |-> <<>>, out |-> r.msg \o <<LF>>, log |-> r.log]
       ELSE [retry |-> FALSE, val |-> in, out |-> <<>>, log |-> r.log]

\* Ask asking again on empty input whether or not the question is optional.
AskInputNoOptional(question, in) ==
  IF in = <<>> /\ question.defaultTo # <<>>
  THEN [retry |-> FALSE, val |-> question.defaultTo, out |-> <<>>, log |-> <<>>]
  ELSE IF in = <<>>
  THEN [retry |-> TRUE, val |-> <<>>, out |-> <<>>, log |-> <<>>]
  ELSE LET r == RunValidators(question.validators, in) IN
       IF r.msg # <<>>
       THEN [retry |-> TRUE, val |-> <<>>, out |-> r.msg \o <<LF>>, log |-> r.log]
       ELSE [retry |-> FALSE, val |-> in, out |-> <<>>, log |-> r.log]

\* Ask printing the error with Fprint, without the newline.
AskInputNoNewline(question, in) ==
  IF in = <<>> /\ question.defaultTo # <<>>
  THEN [retry |-> FALSE, val |-> question.defaultTo, out |-> <<>>, log |-> <<>>]
  ELSE IF in = <<>> /\ ~question.optional
  THEN [retry |-> TRUE, val |-> <<>>, out |-> <<>>, log |-> <<>>]
  ELSE LET r == RunValidators(question.validators, in) IN
       IF r.msg # <<>>
       THEN [retry |-> TRUE, val |-> <<>>, out |-> r.msg, log |-> r.log]
       ELSE [retry |-> FALSE, val |-> in, out |-> <<>>, log |-> r.log]

\* What Ask does with the input readInput returned: retry, or return val.
AskInput(question, in) ==
  IF in = <<>> /\ question.defaultTo # <<>>
  THEN [retry |-> FALSE, val |-> question.defaultTo, out |-> <<>>, log |-> <<>>]
  ELSE IF in = <<>> /\ ~question.optional
  THEN [retry |-> TRUE, val |-> <<>>, out |-> <<>>, log |-> <<>>]
  ELSE LET r == RunValidators(question.validators, in) IN
       IF r.msg # <<>>
       THEN [retry |-> TRUE, val |-> <<>>, out |-> r.msg \o <<LF>>, log |-> r.log]
       ELSE [retry |-> FALSE, val |-> in, out |-> <<>>, log |-> r.log]

\* Ask run from its first prompt to its return on the unread bytes buf, by a
\* caller that does not cancel the context during the call (cancelled: it did
\* before), for at most n attempts: the value and error returned, the bytes left
\* unread and, for each input received, what was written after it.
RECURSIVE Ask(_, _, _, _)
Ask(question, buf, cancelled, n) ==
  IF cancelled
  THEN [done |-> TRUE, val |-> <<>>, err |-> Canceled, rest |-> buf,
        msgs |-> <<>>]
  ELSE IF n = 0
  THEN [done |-> FALSE, val |-> <<>>, err |-> Nil, rest |-> buf, msgs |-> <<>>]
  ELSE LET m == scanLine(question.defaultTo, question.optional, buf) IN
       IF m.ch = "errorCh"
       THEN [done |-> TRUE, val |-> <<>>, err |-> m.err, rest |-> m.rest,
             msgs |-> <<>>]
       ELSE LET b == AskInput(question, m.val) IN
            IF b.retry
            THEN LET r == Ask(question, m.rest, FALSE, n - 1)
                 IN  [r EXCEPT !.msgs = << b.out >> \o @]
            ELSE [done |-> TRUE, val |-> b.val, err |-> Nil, rest |-> m.rest,
                  msgs |-> << b.out >>]

\* Password printing its newline only once the password is known not to be
\* empty.
PasswordInputLateNewline(question, pass) ==
  IF pass = <<>> /\ question.defaultTo # <<>>
  THEN [retry |-> FALSE, val |-> question.defaultTo, out |-> <<>>, log |-> <<>>]
  ELSE IF pass = <<>> /\ ~question.optional
  THEN [retry |-> TRUE, val |-> <<>>, out |-> <<>>, log |-> <<>>]
  ELSE LET r == RunValidators(question.validators, pass) IN
       IF r.msg # <<>>
       THEN [retry |-> TRUE, val |-> <<>>, out |-> <<LF>> \o r.msg \o <<LF>>,
             log |-> r.log]
       ELSE [retry |-> FALSE, val |-> pass, out |-> <<LF>>, log |-> r.log]

\* What Password does with the password readPassword returned.
PasswordInput(question, pass) ==
  IF pass = <<>> /\ question.defaultTo # <<>>
  THEN [retry |-> FALSE, val |-> question.defaultTo, out |-> <<LF>>,
        log |-> <<>>]
  ELSE IF pass = <<>> /\ ~question.optional
  THEN [retry |-> TRUE, val |-> <<>>, out |-> <<LF>>, log |-> <<>>]
  ELSE LET r == RunValidators(question.validators, pass) IN
       IF r.msg # <<>>
       THEN [retry |-> TRUE, val |-> <<>>, out |-> <<LF>> \o r.msg \o <<LF>>,
             log |-> r.log]
       ELSE [retry |-> FALSE, val |-> pass, out |-> <<LF>>, log |-> r.log]

\* isYes comparing without strings.ToLower.
isYesCaseSensitive(s) == s \in { <<"y">>, <<"y", "e", "s">>, <<"t", "r", "u", "e">> }

isYes(s) == ToLower(s) \in { <<"y">>, <<"y", "e", "s">>, <<"t", "r", "u", "e">> }

\* The call returns (val, err); Confirm turns the value into a bool.
Return(val, err) ==
  /\ pc' = "idle"
  /\ ret' = [val |-> IF op = "Confirm" THEN <<>> ELSE val, err |-> err,
             ok |-> op = "Confirm" /\ err = Nil /\ isYes(val), set |-> TRUE,
             accepted |-> val]

\* ---------------------------------------------------------------- Init
Streams ==
  { Flatten(ls) \o f : ls \in SeqsUpTo(Lines, MaxLines), f \in Fragments }

\* The streams of the runs in which contexts are cancelled during a read.
RaceLines == { <<>>, <<"Y", "e", "s", CR>> }
RaceStreams == { Flatten(ls) : ls \in SeqsUpTo(RaceLines, MaxLines) }

\* prompter.New(w, r), no call made yet.
New(streams, errs, terms) ==
  /\ input \in streams
  /\ srcErr \in errs
  /\ isTerm \in terms
  /\ output = <<>>
  /\ q = newQuestion(<<>>, FALSE, <<>>)
  /\ op = "none"
  /\ pc = "idle"
  /\ ctxDone = FALSE
  /\ ret = NoRet
  /\ attempts = 0
  /\ vlog = <<>>
  /\ startInput = input
  /\ lineLog = <<>>
  /\ reader = NoReader
  /\ leaked = <<>>

Init == New(RaceStreams, {EOF}, BOOLEAN)

SeqInit == New(Streams, {EOF, EIO}, BOOLEAN)

\* --------------------------------------------------------------- actions
\* p.Default(d).Optional(o).Is(vs...) followed by Ask, Password or Confirm with
\* a context that is live or already cancelled: the call begins.
Call(o, defaultTo, optional, validators, cancelled) ==
  /\ pc = "idle"
  /\ op' = o
  /\ q' = newQuestion(defaultTo, optional, validators)
  /\ ctxDone' = cancelled
  /\ pc' = IF o = "Confirm" THEN "confirm" ELSE "retry"
  /\ ret' = NoRet
  /\ output' = <<>>
  /\ attempts' = 0
  /\ vlog' = <<>>
  /\ lineLog' = <<>>
  /\ startInput' = input
  /\ UNCHANGED << session, input, reader, leaked >>

\* Confirm's first statement: append the yes/no validator to q.validators, then
\* go on as Ask.
ConfirmAppend ==
  /\ pc = "confirm"
  /\ q' = [q EXCEPT !.validators = Append(@, "yesno")]
  /\ pc' = "retry"
  /\ UNCHANGED << session, input, output, op, ctxDone, ret, attempts, vlog,
                  startInput, lineLog, reader, leaked >>

\* The caller cancels the context of the call in progress.
Cancel ==
  /\ pc \in {"retry", "select"}
  /\ ~ctxDone
  /\ Len(leaked) < MaxLeaked
  /\ ctxDone' = TRUE
  /\ UNCHANGED << session, input, output, q, op, pc, ret, attempts, vlog,
                  startInput, lineLog, reader, leaked >>

\* Retry without readInput's check of ctx.Err().
RetryNoCheck ==
  /\ pc = "retry"
  /\ attempts < MaxAttempts
  /\ output' = output \o PromptText \o <<" ">>
  /\ attempts' = attempts + 1
  /\ pc' = "select"
  /\ reader' = [pc |-> "read", password |-> op = "Password",
                defaultTo |-> q.defaultTo, optional |-> q.optional,
                msg |-> NoMsg, more |-> <<>>, closes |-> <<>>]
  /\ UNCHANGED << session, input, q, op, ctxDone, ret, vlog, startInput,
                  lineLog, leaked >>

\* retry: write the prompt, then readInput / readPassword up to the select:
\* return at once on a cancelled context, else start the reader goroutine.
Retry ==
  /\ pc = "retry"
  /\ ctxDone \/ attempts < MaxAttempts
  /\ output' = output \o PromptText \o <<" ">>
  /\ attempts' = attempts + 1
  /\ IF ctxDone
     THEN /\ Return(<<>>, Canceled)
          /\ UNCHANGED reader
     ELSE /\ pc' = "select"
          /\ reader' = [pc |-> "read", password |-> op = "Password",
                        defaultTo |-> q.defaultTo, optional |-> q.optional,
                        msg |-> NoMsg, more |-> <<>>, closes |-> <<>>]
          /\ UNCHANGED ret
  /\ UNCHANGED << session, input, q, op, ctxDone, vlog, startInput, lineLog,
                  leaked >>

\* What the goroutine r runs: scanPassword for Password, scanLine otherwise.
Scan(r, buf) ==
  IF r.password
  THEN scanPassword(r.defaultTo, r.optional, buf)
  ELSE scanLine(r.defaultTo, r.optional, buf)

\* A goroutine that has its message and is at its channel send.
Sending(m) ==
  [NoReader EXCEPT !.pc = "send",
                   !.msg = [ch |-> m.ch, val |-> m.val, err |-> m.err],
                   !.more = m.more]

\* The select case that received r's message closes inputCh and errorCh, and
\* the goroutine goes on after its send: it returns, and nothing is left of
\* the attempt, or it gets to a further send.
Received(r) ==
  LET c == [r EXCEPT !.closes = @ \o <<"inputCh", "errorCh">>] IN
  IF c.more # <<>>
  THEN [c EXCEPT !.msg = Head(c.more), !.more = Tail(c.more)]
  ELSE IF c.closes = <<"inputCh", "errorCh">>
  THEN NoReader
  ELSE [c EXCEPT !.pc = "none"]

\* The read of the current attempt's goroutine returns.
ReaderRead ==
  /\ reader.pc = "read"
  /\ LET m == Scan(reader, input) IN
       /\ input' = m.rest
       /\ reader' = Sending(m)
  /\ UNCHANGED << session, output, q, op, pc, ctxDone, ret, attempts, vlog,
                  startInput, lineLog, leaked >>

\* The same step of a goroutine whose call has returned on ctx.Done().
LeakedRead(i) ==
  /\ leaked[i].pc = "read"
  /\ LET m == Scan(leaked[i], input) IN
       /\ input' = m.rest
       /\ leaked' = [leaked EXCEPT ![i] = Sending(m)]
  /\ UNCHANGED << session, output, q, op, pc, ctxDone, ret, attempts, vlog,
                  startInput, lineLog, reader >>

\* p.reader is shared and not synchronised: while a goroutine left behind by a
\* cancelled call is inside ReadString, the goroutine of a later attempt calls
\* ReadString on the same bufio.Reader. Besides the two orders (ReaderRead,
\* LeakedRead) the calls may overlap: both return the bytes neither has yet
\* marked as read.
RacingRead(i) ==
  /\ reader.pc = "read"
  /\ leaked[i].pc = "read"
  /\ \A r \in {reader, leaked[i]} : ~(r.password /\ isTerm)
  /\ LET m == Scan(reader, input)
         l == Scan(leaked[i], input)
     IN  /\ input' = m.rest
         /\ reader' = Sending(m)
         /\ leaked' = [leaked EXCEPT ![i] = Sending(l)]
  /\ UNCHANGED << session, output, q, op, pc, ctxDone, ret, attempts, vlog,
                  startInput, lineLog >>

\* RecvInput returning the validator's error to the caller instead of goto retry.
RecvInputReturnsError ==
  /\ pc = "select"
  /\ reader.pc = "send"
  /\ reader.msg.ch = "inputCh"
  /\ reader' = Received(reader)
  /\ lineLog' = Append(lineLog, reader.msg.val)
  /\ LET b == IF op = "Password"
              THEN PasswordInput(q, reader.msg.val)
              ELSE AskInput(q, reader.msg.val)
     IN  /\ output' = output \o b.out
         /\ vlog' = vlog \o b.log
         /\ IF b.retry /\ b.log # <<>>
            THEN Return(<<>>, "ValidatorError")
            ELSE IF b.retry
            THEN pc' = "retry" /\ UNCHANGED ret
            ELSE Return(b.val, Nil)
  /\ UNCHANGED << session, input, q, op, ctxDone, attempts, startInput, leaked >>

\* select: case input := <-inputCh, and what Ask / Password does with it.
RecvInput ==
  /\ pc = "select"
  /\ reader.pc = "send"
  /\ reader.msg.ch = "inputCh"
  /\ reader' = Received(reader)
  /\ lineLog' = Append(lineLog, reader.msg.val)
  /\ LET b == IF op = "Password"
              THEN PasswordInput(q, reader.msg.val)
              ELSE AskInput(q, reader.msg.val)
     IN  /\ output' = output \o b.out
         /\ vlog' = vlog \o b.log
         /\ IF b.retry
            THEN pc' = "retry" /\ UNCHANGED ret
            ELSE Return(b.val, Nil)
  /\ UNCHANGED << session, input, q, op, ctxDone, attempts, startInput, leaked >>

\* select: case err := <-errorCh
RecvError ==
  /\ pc = "select"
  /\ reader.pc = "send"
  /\ reader.msg.ch = "errorCh"
  /\ reader' = Received(reader)
  /\ Return(<<>>, reader.msg.err)
  /\ UNCHANGED << session, input, output, q, op, ctxDone, attempts, vlog,
                  startInput, lineLog, leaked >>

\* case <-ctx.Done() waiting for the reader to finish before it returns.
RecvDoneWaits ==
  /\ pc = "select"
  /\ ctxDone
  /\ reader.pc = "send"
  /\ reader' = NoReader
  /\ leaked' = leaked
  /\ Return(<<>>, Canceled)
  /\ UNCHANGED << session, input, output, q, op, ctxDone, attempts, vlog,
                  startInput, lineLog >>

\* select: case <-ctx.Done(): return without the reader, which stays behind.
RecvDone ==
  /\ pc = "select"
  /\ ctxDone
  /\ reader' = NoReader
  /\ leaked' = Append(leaked, reader)
  /\ Return(<<>>, Canceled)
  /\ UNCHANGED << session, input, output, q, op, ctxDone, attempts, vlog,
                  startInput, lineLog >>

Ops == {"Ask", "Password", "Confirm"}

\* Calls whose context is live or cancelled beforehand, never during the call.
SeqNext ==
  \/ \E o \in Ops, d \in DefaultValues, b \in BOOLEAN, vs \in ValidatorLists,
        c \in BOOLEAN : Call(o, d, b, vs, c)
  \/ ConfirmAppend
  \/ Retry
  \/ ReaderRead
  \/ RecvInput
  \/ RecvError

SeqSpec == SeqInit /\ [][SeqNext]_vars

\* Every goroutine and the caller's cancel, on Questions without validators.
Next ==
  \/ \E o \in Ops, d \in DefaultValues, b \in BOOLEAN, c \in BOOLEAN :
        Call(o, d, b, <<>>, c)
  \/ ConfirmAppend
  \/ Cancel
  \/ Retry
  \/ ReaderRead
  \/ \E i \in 1..Len(leaked) : LeakedRead(i)
  \/ \E i \in 1..Len(leaked) : RacingRead(i)
  \/ RecvInput
  \/ RecvError
  \/ RecvDone

Spec == Init /\ [][Next]_vars

\* The calling goroutine is scheduled: it does not stay for ever at a step it
\* can take. Nothing is assumed of the readers, whose read may never return.
Caller == ConfirmAppend \/ Retry \/ RecvInput \/ RecvError \/ RecvDone

FairSpec == Spec /\ WF_vars(Caller)

\* ================================================================ claims
Returned == pc = "idle" /\ ret.set

Last(s) == s[Len(s)]

\* s holds line-terminator characters only.
IsBlank(s) == \A i \in 1..Len(s) : s[i] \in {CR, LF}

\* s without the CR and LF characters at its end.
Stripped(s) ==
  LET k == CHOOSE k \in 0..Len(s) :
             /\ \A j \in (k + 1)..Len(s) : s[j] \in {CR, LF}
             /\ k = 0 \/ s[k] \notin {CR, LF}
  IN  SubSeq(s, 1, k)

HasLine(buf) == \E i \in 1..Len(buf) : buf[i] = LF
FirstLF(buf) == Min({ i \in 1..Len(buf) : buf[i] = LF })
FirstLine(buf) == SubSeq(buf, 1, FirstLF(buf) - 1)
AfterLine(buf) == SubSeq(buf, FirstLF(buf) + 1, Len(buf))

\* The leading blank lines of buf: how many, and what follows them.
RECURSIVE SkipBlank(_)
SkipBlank(buf) ==
  IF HasLine(buf) /\ IsBlank(FirstLine(buf))
  THEN LET r == SkipBlank(AfterLine(buf)) IN [n |-> r.n + 1, rest |-> r.rest]
  ELSE [n |-> 0, rest |-> buf]

YesWords ==
  { <<a>> : a \in {"y", "Y"} } \cup
  { <<a, b, c>> : a \in {"y", "Y"}, b \in {"e", "E"}, c \in {"s", "S"} }
NoWords ==
  { <<a>> : a \in {"n", "N"} } \cup
  { <<a, b>> : a \in {"n", "N"}, b \in {"o", "O"} }

\* The first of the validators vs that rejects s, 0 if none does.
FirstFailing(vs, s) ==
  IF \E k \in 1..Len(vs) : Validate(vs[k], s) # <<>>
  THEN Min({ k \in 1..Len(vs) : Validate(vs[k], s) # <<>> })
  ELSE 0

\* Ask hands the input in to the validators (it is not resolved as empty input).
Validated(in) == in # <<>> \/ (q.defaultTo = <<>> /\ q.optional)

\* C1: a plain Ask (no default, not optional, no validators, live context) on a
\* stream holding a non-blank line returns that first non-blank line without its
\* trailing CR/LF and a nil error, after one prompt per blank line before it and
\* one for the line, and leaves the stream at the line after it.
C1_AskReturnsNextLine ==
  ( /\ Returned
    /\ op = "Ask"
    /\ q = newQuestion(<<>>, FALSE, <<>>)
    /\ ~ctxDone
    /\ HasLine(SkipBlank(startInput).rest) )
  => LET sk == SkipBlank(startInput) IN
       /\ ret.err = Nil
       /\ ret.val = Stripped(FirstLine(sk.rest))
       /\ ret.val # <<>>
       /\ attempts = sk.n + 1
       /\ input = AfterLine(sk.rest)

C1_Witness ==
  /\ Returned
  /\ op = "Ask"
  /\ q = newQuestion(<<>>, FALSE, <<>>)
  /\ startInput = <<CR, LF, "Y", "e", "s", CR, LF, "n", "o">>
  /\ ret.val = <<"Y", "e", "s">>
  /\ attempts = 2
  /\ input = <<"n", "o">>

\* C2: Ask on a Question with no default and optional=false, with only blank
\* lines (or nothing) left before the end of the input, returns the empty string
\* and ErrRequired after one prompt per blank line and one more; it never asks
\* again once the end of the input was read.
C2_ExhaustedIsErrRequired ==
  ( /\ op = "Ask"
    /\ q.defaultTo = <<>>
    /\ ~q.optional
    /\ ~ctxDone
    /\ srcErr = EOF
    /\ SkipBlank(startInput).rest = <<>> )
  => /\ attempts <= SkipBlank(startInput).n + 1
     /\ pc = "retry" => attempts <= SkipBlank(startInput).n
     /\ Returned => /\ ret.val = <<>>
                    /\ ret.err = ErrRequired
                    /\ attempts = SkipBlank(startInput).n + 1

C2_Witness ==
  /\ Returned
  /\ op = "Ask"
  /\ q.defaultTo = <<>>
  /\ ~q.optional
  /\ srcErr = EOF
  /\ startInput = <<LF, CR, LF>>
  /\ ret.err = ErrRequired
  /\ attempts = 3

\* C3: Ask on a Question with a non-empty default and no validators, optional or
\* not, returns the default and nil when the next line is blank or the input is
\* at its end, and the next line, not the default, when that line is not blank;
\* each after a single read.
C3_DefaultOnEmpty ==
  ( /\ Returned
    /\ op = "Ask"
    /\ q.defaultTo # <<>>
    /\ q.validators = <<>>
    /\ ~ctxDone )
  => /\ HasLine(startInput) =>
          /\ ret.err = Nil
          /\ ret.val = IF IsBlank(FirstLine(startInput))
                       THEN q.defaultTo
                       ELSE Stripped(FirstLine(startInput))
          /\ attempts = 1
          /\ input = AfterLine(startInput)
     /\ (startInput = <<>> /\ srcErr = EOF) =>
          /\ ret.err = Nil
          /\ ret.val = q.defaultTo
          /\ attempts = 1

C3_Witness ==
  /\ Returned
  /\ op = "Ask"
  /\ q.defaultTo = <<"a", "m">>
  /\ q.validators = <<>>
  /\ startInput = <<"n", "O", LF>>
  /\ ret.val = <<"n", "O">>
  /\ ret.err = Nil

\* C4: Ask on a Question with optional=true, no default and no validators
\* returns the empty string and nil after a single read when the next line is
\* blank or the input is at its end.
C4_OptionalOnEmpty ==
  ( /\ Returned
    /\ op = "Ask"
    /\ q = newQuestion(<<>>, TRUE, <<>>)
    /\ ~ctxDone
    /\ \/ HasLine(startInput) /\ IsBlank(FirstLine(startInput))
       \/ startInput = <<>> /\ srcErr = EOF )
  => /\ ret.val = <<>>
     /\ ret.err = Nil
     /\ attempts = 1
     /\ Len(lineLog) = 1

C4_Witness ==
  /\ Returned
  /\ op = "Ask"
  /\ q = newQuestion(<<>>, TRUE, <<>>)
  /\ startInput = <<CR, LF, "n", "O", LF>>
  /\ ret.val = <<>>
  /\ ret.err = Nil
  /\ input = <<"n", "O", LF>>

\* The place of validator v in the Question's list.
Idx(v) == CHOOSE k \in 1..Len(q.validators) : q.validators[k] = v

\* C5: the validators are invoked in the order they were attached, on the input
\* read, up to the first that returns an error; after an error the prompt is
\* written again; and the value Ask returns, unless it is the default taken for
\* empty input, was passed by every validator.
C5_ValidatorsInOrder ==
  /\ \A i \in 1..Len(vlog) :
       /\ vlog[i].failed = (Validate(vlog[i].v, vlog[i].arg) # <<>>)
       /\ IF i = 1 \/ vlog[i - 1].failed
             \/ Idx(vlog[i - 1].v) = Len(q.validators)
          THEN vlog[i].v = q.validators[1]
          ELSE /\ vlog[i].v = q.validators[Idx(vlog[i - 1].v) + 1]
               /\ vlog[i].arg = vlog[i - 1].arg
  /\ vlog # <<>> =>
       \/ Last(vlog).failed
       \/ Idx(Last(vlog).v) = Len(q.validators)
  /\ ( /\ lineLog # <<>>
       /\ Validated(Last(lineLog))
       /\ FirstFailing(q.validators, Last(lineLog)) > 0 )
     => /\ vlog # <<>>
        /\ Last(vlog).failed
        /\ Last(vlog).arg = Last(lineLog)
        /\ pc = "retry" \/ attempts > Len(lineLog)
  /\ (Returned /\ ret.err = Nil) =>
       /\ \A i \in 1..Len(vlog) : vlog[i].failed => vlog[i].arg # ret.accepted
       /\ \/ Last(lineLog) = <<>> /\ q.defaultTo # <<>>
             /\ ret.accepted = q.defaultTo
          \/ /\ ret.accepted = Last(lineLog)
             /\ Len(vlog) >= Len(q.validators)
             /\ \A k \in 1..Len(q.validators) :
                  LET e == vlog[Len(vlog) - Len(q.validators) + k] IN
                    /\ e.v = q.validators[k]
                    /\ e.arg = ret.accepted
                    /\ ~e.failed

C5_Witness ==
  /\ Returned
  /\ op = "Ask"
  /\ q.validators = <<"validName", "validate">>
  /\ Len(vlog) = 4
  /\ ~vlog[1].failed
  /\ vlog[2].failed
  /\ vlog[2].arg = <<"a", "m", "y">>
  /\ ret.val = <<"Y", "e", "s">>
  /\ ret.err = Nil

\* What the attempts from the i-th on wrote.
RECURSIVE Written(_)
Written(i) ==
  IF i > attempts
  THEN <<>>
  ELSE LET k == IF i <= Len(lineLog) /\ Validated(lineLog[i])
                THEN FirstFailing(q.validators, lineLog[i])
                ELSE 0
       IN  PromptText \o <<" ">>
           \o (IF k > 0 THEN Validate(q.validators[k], lineLog[i]) \o <<LF>>
               ELSE <<>>)
           \o Written(i + 1)

\* C6: when Ask (or Confirm, which is Ask) returns, the bytes it wrote are, for
\* each read attempt in order, the prompt and one space, followed by the text of
\* the first failing validator and a newline exactly when a validator rejected
\* the attempt's input; nothing else is written.
C6_OutputBytes ==
  (Returned /\ op \in {"Ask", "Confirm"}) => output = Written(1)

C6_Witness ==
  /\ Returned
  /\ op = "Ask"
  /\ q.validators = <<"validName">>
  /\ startInput = <<"n", "O", LF, "a", "m", "y", LF>>
  /\ ret.val = <<"a", "m", "y">>
  /\ output = <<"Name?", " ", "'", "n", "O", "' is too short", LF, "Name?", " ">>

\* C7: a call whose context is cancelled beforehand returns the empty string
\* (false for Confirm) and the context's error in its first step: the prompt is
\* written once, no reader goroutine is started and the input is left as it was.
C7_CancelledBeforeCall ==
  ctxDone =>
    /\ reader = NoReader
    /\ leaked = <<>>
    /\ input = startInput
    /\ lineLog = <<>>
    /\ pc \in {"confirm", "retry", "idle"}
    /\ pc \in {"confirm", "retry"} => attempts = 0
    /\ pc = "idle" =>
         /\ Returned
         /\ ret.val = <<>>
         /\ ~ret.ok
         /\ ret.err = Canceled
         /\ attempts = 1

C7_Witness ==
  /\ Returned
  /\ ctxDone
  /\ op = "Confirm"
  /\ ret.err = Canceled
  /\ ~ret.ok
  /\ input = <<"Y", "e", "s", CR, LF>>

\* C8 as stated: once the context is cancelled while the reader goroutine is
\* still reading, the call eventually returns the empty string and the context's
\* error.
C8_Original ==
  (pc = "select" /\ ctxDone /\ reader.pc = "read")
    ~> (Returned /\ ret.val = <<>> /\ ret.err = Canceled)

\* C8 amended: once the context of a call in progress is cancelled the call
\* eventually returns, whether or not the read ever returns; while the reader is
\* still reading, the only step the call takes is to return the empty string and
\* the context's error, leaving the reader behind and the input as it is. (A
\* reader whose result is ready when the select runs may be served instead.)
C8_CancelReturns ==
  /\ (pc \in {"retry", "select"} /\ ctxDone) ~> Returned
  /\ [][ (pc = "select" /\ ctxDone /\ reader.pc = "read" /\ pc' # "select")
         => /\ Returned'
            /\ ret'.val = <<>>
            /\ ret'.err = Canceled
            /\ leaked' = Append(leaked, reader)
            /\ input' = input ]_vars

C8_Witness ==
  /\ Returned
  /\ op = "Password"
  /\ ret.val = <<>>
  /\ ret.err = Canceled
  /\ lineLog = <<>>
  /\ leaked # <<>>
  /\ Last(leaked).pc = "read"
  /\ input # <<>>

C10_Original ==
  (Returned /\ op = "Confirm" /\ ret.err = Nil) =>
    ret.accepted \in YesWords \cup NoWords

\* C10 amended: whenever Confirm returns a nil error, the string Ask accepted is
\* y, yes, n or no in some letter case, or it is the Question's non-empty default
\* taken for an empty line, which no validator sees; Confirm returns true only
\* for y or yes, and false for n, no or such a default.
C10_ConfirmAccepted ==
  (Returned /\ op = "Confirm" /\ ret.err = Nil) =>
    /\ \/ ret.accepted \in YesWords \cup NoWords
       \/ /\ q.defaultTo # <<>>
          /\ ret.accepted = q.defaultTo
          /\ Last(lineLog) = <<>>
    /\ ret.ok => ret.accepted \in YesWords
    /\ q.defaultTo = <<>> => ret.accepted \in YesWords \cup NoWords

C10_Witness ==
  /\ Returned
  /\ op = "Confirm"
  /\ ret.err = Nil
  /\ ~ret.ok
  /\ q.defaultTo = <<"a", "m">>
  /\ ret.accepted = <<"a", "m">>
  /\ lineLog = << <<>> >>

\* The first read of the call resolves to the Question's default: the next line
\* is blank, or the stream is exhausted (a terminal's ReadPassword reports the
\* end of the input as an error instead).
FirstReadIsDefault ==
  /\ q.defaultTo # <<>>
  /\ ~ctxDone
  /\ IF HasLine(startInput)
     THEN IsBlank(FirstLine(startInput))
     ELSE srcErr = EOF /\ ~(op = "Password" /\ isTerm)

\* C11: a configured default is never passed to a validator: when the first read
\* of Ask or Password resolves to the default (blank line or exhausted stream),
\* the call returns the default with a nil error and has invoked no validator.
C11_DefaultNeverValidated ==
  (op \in {"Ask", "Password"} /\ FirstReadIsDefault /\ lineLog # <<>>) =>
    /\ vlog = <<>>
    /\ Returned
    /\ ret.val = q.defaultTo
    /\ ret.err = Nil

\* C12: no validator is ever invoked with the empty string, in Ask, Password or
\* Confirm, whatever the default, the optional flag and the validators.
C12_NoEmptyValidated == \A i \in 1..Len(vlog) : vlog[i].arg # <<>>

\* C13: every non-nil error a call returns is ErrRequired (only for a Question
\* with no default that is not optional), the context's error (only when the
\* context is cancelled) or the error of the input stream, and comes with the
\* empty string (false for Confirm); an input a validator rejected never ends
\* the call: the prompt is written again.
C13_ErrorsReturned ==
  /\ (Returned /\ ret.err # Nil) =>
       /\ ret.val = <<>>
       /\ ret.accepted = <<>>
       /\ ~ret.ok
       /\ ret.err \in {ErrRequired, Canceled, srcErr}
       /\ ret.err = Canceled => ctxDone
       /\ ret.err = ErrRequired => (q.defaultTo = <<>> /\ ~q.optional)
       /\ Len(lineLog) = attempts - 1
  /\ \A i \in 1..Len(lineLog) :
       (Validated(lineLog[i]) /\ FirstFailing(q.validators, lineLog[i]) > 0) =>
         \/ attempts > i
         \/ pc = "retry" /\ attempts = i

C13_Witness ==
  /\ Returned
  /\ op = "Ask"
  /\ q.validators = <<"validName">>
  /\ lineLog = << <<"n", "O">> >>
  /\ output = <<"Name?", " ", "'", "n", "O", "' is too short", LF, "Name?", " ">>
  /\ ret.err = EIO
  /\ ret.val = <<>>

\* C14: a call that ended in cancellation loses no input line: a later plain
\* Ask with a live context, on a Session that earlier calls may have left by
\* cancellation, returns the first non-blank line of what was unread when it
\* began.
C14_NoLineLost ==
  ( /\ Returned
    /\ op = "Ask"
    /\ q = newQuestion(<<>>, FALSE, <<>>)
    /\ ~ctxDone
    /\ HasLine(SkipBlank(startInput).rest) )
  => /\ ret.err = Nil
     /\ ret.val = Stripped(FirstLine(SkipBlank(startInput).rest))

\* The goroutines that are inside a read of the Session's input source.
Reading ==
  (IF reader.pc = "read" THEN {0} ELSE {})
    \cup { i \in 1..Len(leaked) : leaked[i].pc = "read" }

\* C17: with calls made one after the other, at most one read is outstanding
\* against the input source; a read attempt starts only when no earlier read,
\* not even one abandoned by a cancelled call, is still reading.
C17_OneReadOutstanding == Cardinality(Reading) <= 1

\* An abandoned goroutine whose read has resolved and that has not ended.
AbandonedAtSend == \E i \in 1..Len(leaked) : leaked[i].pc = "send"

\* C18: once the read of a goroutine abandoned by a cancelled call resolves, the
\* goroutine eventually ends; it does not stay blocked for ever.
C18_AbandonedReaderEnds == AbandonedAtSend ~> ~AbandonedAtSend

\* k prompts, the first Len(msgs) of them followed by nl and a message.
RECURSIVE Rendered(_, _, _)
Rendered(msgs, k, nl) ==
  IF k = 0
  THEN <<>>
  ELSE PromptText \o <<" ">>
       \o (IF msgs # <<>> THEN nl \o Head(msgs) ELSE <<>>)
       \o Rendered(IF msgs # <<>> THEN Tail(msgs) ELSE <<>>, k - 1, nl)

\* C15: on an input that is no terminal, Password returns the value and error
\* that Ask returns for the same Question, unread input and context, and leaves
\* the same bytes unread: both are the one function Ask of these three. What
\* Password writes is what Ask writes with one newline more after each input
\* received.
C15_PasswordAsAsk ==
  (Returned /\ (op = "Ask" \/ (op = "Password" /\ ~isTerm))) =>
    LET a == Ask(q, startInput, ctxDone, MaxAttempts) IN
      /\ a.done
      /\ ret.val = a.val
      /\ ret.err = a.err
      /\ input = a.rest
      /\ lineLog # <<>> \/ ret.err # Nil
      /\ output = Rendered(a.msgs, attempts,
                           IF op = "Password" THEN <<LF>> ELSE <<>>)

C15_Witness ==
  /\ Returned
  /\ op = "Password"
  /\ ~isTerm
  /\ q = newQuestion(<<>>, FALSE, <<"validName">>)
  /\ startInput = <<"n", "O", LF, "Y", "e", "s", CR, LF>>
  /\ ret.val = <<"Y", "e", "s">>
  /\ ret.err = Nil
  /\ input = <<>>
  /\ output = <<"Name?", " ", LF, "'", "n", "O", "' is too short", LF,
                "Name?", " ", LF>>

\* C16: from the moment Ask, Password or Confirm begins until it has returned,
\* the Question's default, optional flag and list of validators stay as the
\* builder calls set them.
C16_QuestionUnchanged == [][pc # "idle" => q' = q]_vars

\* What Password's attempts from the i-th on wrote, if each input received is
\* followed by one newline, then by the message of the validator rejecting it.
RECURSIVE PasswordWritten(_)
PasswordWritten(i) ==
  IF i > attempts
  THEN <<>>
  ELSE LET k == IF i <= Len(lineLog) /\ Validated(lineLog[i])
                THEN FirstFailing(q.validators, lineLog[i])
                ELSE 0
       IN  PromptText \o <<" ">>
           \o (IF i <= Len(lineLog) THEN <<LF>> ELSE <<>>)
           \o (IF k > 0 THEN Validate(q.validators[k], lineLog[i]) \o <<LF>>
               ELSE <<>>)
           \o PasswordWritten(i + 1)

\* C19: in Password every read attempt that yields a value is followed by exactly
\* one newline, written before the validator's message and before the next
\* prompt or the return; an attempt that ends in an error or in cancellation
\* yields no value and writes no newline: the output ends with its prompt.
C19_PasswordNewline ==
  op = "Password" =>
    /\ output = PasswordWritten(1)
    /\ Len(lineLog) = IF pc = "select" \/ (Returned /\ ret.err # Nil)
                      THEN attempts - 1
                      ELSE attempts
    /\ (Returned /\ ret.err # Nil) => Last(output) = " "
    /\ (Returned /\ ret.err = Nil) => Last(output) = LF

C19_Witness ==
  /\ Returned
  /\ op = "Password"
  /\ isTerm
  /\ q.validators = <<"validName">>
  /\ lineLog = << <<"n", "O">> >>
  /\ ret.err = EOF
  /\ output = <<"Name?", " ", LF, "'", "n", "O", "' is too short", LF,
                "Name?", " ">>

\* The reads that exhaust the stream buf: one for each line and one for a last
\* fragment without line terminator.
Chunks(buf) ==
  Len(SelectSeq(buf, LAMBDA c : c = LF))
    + (IF buf # <<>> /\ Last(buf) # LF THEN 1 ELSE 0)

\* C20: on a finite stream, with a context that is never cancelled and no I/O
\* error, the call returns: it does not spin on the exhausted stream. A call
\* that is back at its retry label after a read that began on the exhausted
\* stream repeats that read and its outcome for ever (the Question does not
\* change and the validators are deterministic), so no call is ever there.
C20_Terminates ==
  (pc = "retry" /\ srcErr = EOF /\ ~ctxDone) => attempts <= Chunks(startInput)

\* C21: when the stream ends with a non-empty fragment that has no line
\* terminator, Ask returns the value and error it returns for the same stream
\* with the fragment terminated by a newline, whatever the default and the
\* optional flag: typed text is not given up for the default or ErrRequired.
C21_FragmentAsLine ==
  ( /\ Returned
    /\ op = "Ask"
    /\ ~ctxDone
    /\ srcErr = EOF
    /\ startInput # <<>>
    /\ ~IsBlank(SubSeq(startInput, Len(startInput), Len(startInput))) )
  => LET a == Ask(q, startInput \o <<LF>>, FALSE, MaxAttempts) IN
       a.done => (ret.val = a.val /\ ret.err = a.err)

\* The goroutines started by readInput / readPassword that have not ended.
Goroutines == {reader} \cup { leaked[i] : i \in 1..Len(leaked) }

\* C22: in every interleaving of a call and the reader goroutines, a goroutine
\* sends once, on one of its two channels: before its read resolves it has sent
\* nothing, afterwards it is at its only send (no further send follows) until
\* the message is received, and then it ends. No goroutine is at a send on a
\* closed channel and no channel is closed twice; the channels of a goroutine
\* left behind by a cancelled call are never closed.
C22_OneSendNoClosedChannel ==
  /\ \A r \in Goroutines :
       /\ r.pc \in {"none", "read", "send"}
       /\ r.pc \in {"none", "read"} => (r.msg = NoMsg /\ r.more = <<>>)
       /\ r.pc = "send" =>
            /\ r.msg.ch \in {"inputCh", "errorCh"}
            /\ r.msg.ch = "errorCh" <=> r.msg.err # Nil
            /\ r.more = <<>>
            /\ \A k \in 1..Len(r.closes) : r.closes[k] # r.msg.ch
       /\ \A j, k \in 1..Len(r.closes) : r.closes[j] = r.closes[k] => j = k
  /\ \A i \in 1..Len(leaked) : leaked[i].pc # "none" /\ leaked[i].closes = <<>>
  /\ pc \in {"idle", "confirm", "retry"} => reader = NoReader
  /\ pc = "select" => reader.pc \in {"read", "send"}

C22_Witness ==
  /\ Returned
  /\ ret.err = Nil
  /\ ret.val = <<"Y", "e", "s">>
  /\ lineLog = << <<>>, <<"Y", "e", "s">> >>
  /\ reader = NoReader
  /\ leaked # <<>>
  /\ leaked[1].pc = "send"
  /\ leaked[1].msg = [ch |-> "errorCh", val |-> <<>>, err |-> ErrRequired]
  /\ leaked[1].closes = <<>>

TypeOK == pc \in {"idle", "confirm", "retry", "select"}

====
